---- MODULE Spec2Model ----
(***************************************************************************)
(* State-machine model of the medB storefront backend                      *)
(* (src/server-mongodb.js and the mongoose models it uses).                *)
(*                                                                         *)
(* The database collections are the state.  A request handler whose        *)
(* database calls matter for interleaving (POST /api/orders) is modelled   *)
(* one database call per action; the other handlers are one action each.   *)
(* Money is an integer number of minor units; the inputs are multiples of  *)
(* 100, so that value * percent / 100 is exact.                            *)
(***************************************************************************)
EXTENDS Integers, Sequences, FiniteSets, TLC

VARIABLES
    coupons,      \* Coupon collection: code -> document
    initialUsed,  \* history: usedCount of every coupon in the initial state
    orders,       \* Order collection, in insertion order
    inflight,     \* POST /api/orders requests between two database calls
    cart,         \* Cart collection, in insertion (natural) order
    products,     \* Product collection: id -> document
    last,         \* the last completed request and its HTTP status
    documents,    \* ids stored in each collection with generated ids
    pending,      \* other requests between two database calls
    categories,   \* Category collection: id -> document
    wishlist,     \* Wishlist collection, in insertion order
    customers,    \* Customer collection: id -> document
    now           \* the clock, in minutes

others == <<documents, pending, categories, wishlist, customers, now>>

vars == <<coupons, initialUsed, orders, inflight, cart, products, last, others>>

-----------------------------------------------------------------------------
(* Bounds *)

MaxInFlight == 2   \* concurrent POST /api/orders requests
MaxOrders == 2     \* orders in the ledger (coupon specifications)
MaxLedger == 1     \* orders in the ledger (totals specification)
MaxCartLines == 2  \* documents in the Cart collection
MaxQuantity == 2   \* largest quantity on one cart line
MaxOrderId == 2     \* order ids the ledger hands out

-----------------------------------------------------------------------------
(* Generic helpers *)

Max(a, b) == IF a >= b THEN a ELSE b

Min(a, b) == IF a <= b THEN a ELSE b

Range(s) == {s[i] : i \in DOMAIN s}

RECURSIVE SumSeq(_)
SumSeq(s) == IF s = <<>> THEN 0 ELSE Head(s) + SumSeq(Tail(s))

\* A document (selectedOptions, optionsPricing) is an ordered list of
\* <<key, value>> pairs; two documents are the same mapping when they hold
\* the same pairs, in any order.
SameMapping(d1, d2) == Range(d1) = Range(d2)

\* Sum of the values of a document of numbers (the per-option price deltas).
SumValues(doc) == SumSeq([i \in DOMAIN doc |-> doc[i][2]])

\* String.prototype.toUpperCase on the coupon codes the requests carry.
ToUpperCase(code) ==
    CASE code = "save" -> "SAVE"
      [] code = "nope" -> "NOPE"
      [] OTHER -> code

-----------------------------------------------------------------------------
(* Coupon model (models/Coupon.js) *)

Unset == -1   \* an optional number that is not set

CouponCodes == {"SAVE"}

\* Faulty variant: the minimum order amount is checked before the expiry.
calculateDiscountMinimumFirst(coupon, subtotal) ==
    IF ~coupon.isActive
      THEN [error |-> "inactive", discount |-> 0]
    ELSE IF subtotal < coupon.minOrderAmount
      THEN [error |-> "below minimum", discount |-> 0]
    ELSE IF coupon.expiresAt = "past"
      THEN [error |-> "expired", discount |-> 0]
    ELSE IF coupon.maxUsage # Unset /\ coupon.usedCount >= coupon.maxUsage
      THEN [error |-> "usage limit", discount |-> 0]
    ELSE [error |-> "",
          discount |->
            Min(IF coupon.discountType = "percentage"
                  THEN (subtotal * coupon.discountValue) \div 100
                  ELSE coupon.discountValue,
                subtotal)]

\* Faulty variant: the usage check lets a coupon through at usedCount =
\* maxUsage.
calculateDiscountUsageOffByOne(coupon, subtotal) ==
    IF ~coupon.isActive
      THEN [error |-> "inactive", discount |-> 0]
    ELSE IF coupon.expiresAt = "past"
      THEN [error |-> "expired", discount |-> 0]
    ELSE IF coupon.maxUsage # Unset /\ coupon.usedCount > coupon.maxUsage
      THEN [error |-> "usage limit", discount |-> 0]
    ELSE IF subtotal < coupon.minOrderAmount
      THEN [error |-> "below minimum", discount |-> 0]
    ELSE [error |-> "",
          discount |->
            Min(IF coupon.discountType = "percentage"
                  THEN (subtotal * coupon.discountValue) \div 100
                  ELSE coupon.discountValue,
                subtotal)]

\* coupon.calculateDiscount(subtotal): the four checks in order, then the
\* discount, clamped to the subtotal.
calculateDiscount(coupon, subtotal) ==
    IF ~coupon.isActive
      THEN [error |-> "inactive", discount |-> 0]
    ELSE IF coupon.expiresAt = "past"
      THEN [error |-> "expired", discount |-> 0]
    ELSE IF coupon.maxUsage # Unset /\ coupon.usedCount >= coupon.maxUsage
      THEN [error |-> "usage limit", discount |-> 0]
    ELSE IF subtotal < coupon.minOrderAmount
      THEN [error |-> "below minimum", discount |-> 0]
    ELSE [error |-> "",
          discount |->
            Min(IF coupon.discountType = "percentage"
                  THEN (subtotal * coupon.discountValue) \div 100
                  ELSE coupon.discountValue,
                subtotal)]

\* Coupon.findOne({ code, isActive: true }): the matching document or none.
NoCoupon == [code |-> ""]

FindActiveCoupon(code) ==
    IF code \in DOMAIN coupons /\ coupons[code].isActive
      THEN coupons[code]
      ELSE NoCoupon

-----------------------------------------------------------------------------
(* Order model (models/Order.js) and the order routes *)

\* Order pre-save: the derived totals.
OrderSubtotal(items) == SumSeq([i \in DOMAIN items |-> items[i].totalPrice])

\* Faulty variant: the total without the clamp.
UnclampedTotal(subtotal, deliveryFee, couponDiscount) ==
    subtotal + deliveryFee - couponDiscount

OrderTotal(subtotal, deliveryFee, couponDiscount) ==
    Max(0, subtotal + deliveryFee - couponDiscount)

\* Order pre-save: auto-increment id, "find max, add one".
NextOrderId ==
    IF orders = <<>> THEN 1
    ELSE 1 + CHOOSE m \in {orders[i].id : i \in DOMAIN orders} :
                 \A i \in DOMAIN orders : orders[i].id <= m

\* order.save() of a new Order: the schema defaults and the pre-save hook
\* give the stored document.  doc.subtotal and doc.total are what the route
\* handed to the constructor (Unset: nothing).
SavedOrder(doc) ==
    [doc EXCEPT !.id = NextOrderId,
                !.subtotal = OrderSubtotal(doc.items),
                !.total = OrderTotal(OrderSubtotal(doc.items), doc.deliveryFee,
                                     doc.couponDiscount),
                !.status = "pending"]
      @@ [deliveredAt |-> "none"]

Idle == [pc |-> "idle"]

\* POST /api/orders: the subtotal the coupon is checked against.
OrdersCouponSubtotal(items) ==
    SumSeq([i \in DOMAIN items |-> items[i].price * items[i].quantity])

\* The order documents carry four history fields beside the stored ones:
\* route (the route that created the order), couponApplied (a coupon was
\* applied to it), validated and validatedSubtotal (the coupon was checked,
\* and against which amount).

\* POST /api/orders, up to the first database write.  With a coupon code the
\* coupon is read (findOne) and the discount decided on that copy.
OrdersFindCoupon(r, body) ==
    /\ inflight[r].pc = "idle"
    /\ LET coupon == IF body.couponCode # ""
                       THEN FindActiveCoupon(ToUpperCase(body.couponCode))
                       ELSE NoCoupon
           found == coupon # NoCoupon
           subtotal == OrdersCouponSubtotal(body.items)
           discountResult == IF found THEN calculateDiscount(coupon, subtotal)
                             ELSE [error |-> "no coupon", discount |-> 0]
           applied == found /\ discountResult.error = ""
       IN inflight' = [inflight EXCEPT ![r] =
              [pc |-> IF applied THEN "saveCoupon" ELSE "saveOrder",
               body |-> body,
               coupon |-> coupon,
               couponDiscount |-> IF applied THEN discountResult.discount ELSE 0,
               couponApplied |-> applied,
               validated |-> found,
               validatedSubtotal |-> IF found THEN subtotal ELSE 0]]
    /\ UNCHANGED <<others, coupons, initialUsed, orders, cart, products, last>>

\* Faulty variant: an unconditional atomic increment of the stored document.
IncrementStoredUsedCount(read, stored) == stored.usedCount + 1

\* coupon.usedCount += 1 on the copy that was read, as written by save().
IncrementedUsedCount(read, stored) == read.usedCount + 1

\* POST /api/orders: await coupon.save().
OrdersSaveCoupon(r) ==
    /\ inflight[r].pc = "saveCoupon"
    /\ LET code == inflight[r].coupon.code
       IN coupons' = [coupons EXCEPT ![code].usedCount =
              IncrementedUsedCount(inflight[r].coupon, coupons[code])]
    /\ inflight' = [inflight EXCEPT ![r].pc = "saveOrder"]
    /\ UNCHANGED <<others, initialUsed, orders, cart, products, last>>

\* POST /api/orders: new Order({...}); await order.save().  A rejected save
\* goes to the catch block: 500.
OrdersSaveOrder(r, saved) ==
    /\ inflight[r].pc = "saveOrder"
    /\ LET req == inflight[r]
           doc == [id |-> Unset, status |-> "",
                   items |-> req.body.items,
                   subtotal |-> Unset,
                   deliveryFee |-> req.body.deliveryFee,
                   total |-> Unset,
                   couponCode |-> req.body.couponCode,
                   couponDiscount |-> req.couponDiscount,
                   route |-> "orders",
                   couponApplied |-> req.couponApplied,
                   validated |-> req.validated,
                   validatedSubtotal |-> req.validatedSubtotal]
       IN IF saved
            THEN /\ orders' = Append(orders, SavedOrder(doc))
                 /\ inflight' = [inflight EXCEPT ![r].pc = "clearCart"]
                 /\ last' = last
            ELSE /\ orders' = orders
                 /\ inflight' = [inflight EXCEPT ![r] = Idle]
                 /\ last' = [op |-> "POST /api/orders", status |-> 500]
    /\ UNCHANGED <<others, coupons, initialUsed, cart, products>>

\* Faulty variant: a failed cart clearing takes the order back out of the
\* ledger.
OrdersClearCartRollingBack(r, cleared) ==
    /\ inflight[r].pc = "clearCart"
    /\ cart' = IF cleared
                 THEN SelectSeq(cart, LAMBDA line : line.userId # inflight[r].body.userId)
                 ELSE cart
    /\ orders' = IF cleared THEN orders ELSE SubSeq(orders, 1, Len(orders) - 1)
    /\ inflight' = [inflight EXCEPT ![r] = Idle]
    /\ last' = [op |-> "POST /api/orders",
                status |-> IF cleared THEN 201 ELSE 500]
    /\ UNCHANGED <<others, coupons, initialUsed, products>>

\* POST /api/orders: await Cart.deleteMany({ userId }), then 201; a rejected
\* deleteMany goes to the catch block: 500.
OrdersClearCart(r, cleared) ==
    /\ inflight[r].pc = "clearCart"
    /\ cart' = IF cleared
                 THEN SelectSeq(cart, LAMBDA line : line.userId # inflight[r].body.userId)
                 ELSE cart
    /\ inflight' = [inflight EXCEPT ![r] = Idle]
    /\ last' = [op |-> "POST /api/orders",
                status |-> IF cleared THEN 201 ELSE 500]
    /\ UNCHANGED <<others, coupons, initialUsed, orders, products>>

\* POST /api/checkout: items[].totalPrice || price * quantity.
CheckoutItem(item) ==
    [item EXCEPT !.totalPrice =
        IF item.totalPrice # 0 THEN item.totalPrice
        ELSE item.price * item.quantity]

\* POST /api/checkout: one order.save(); the coupon is neither read nor
\* written.  body.subtotal, body.total and body.couponDiscount are the
\* client's values (0: not sent).
Checkout(body, saved) ==
    /\ LET orderItems == [i \in DOMAIN body.items |-> CheckoutItem(body.items[i])]
           orderSubtotal == IF body.subtotal # 0 THEN body.subtotal
                            ELSE SumSeq([i \in DOMAIN orderItems |->
                                            orderItems[i].totalPrice])
           orderDeliveryFee == body.deliveryFee
           orderCouponDiscount == body.couponDiscount
           orderTotal == IF body.total # 0 THEN body.total
                         ELSE orderSubtotal + orderDeliveryFee - orderCouponDiscount
           couponCode == body.appliedCoupon
           doc == [id |-> Unset, status |-> "",
                   items |-> orderItems,
                   subtotal |-> orderSubtotal,
                   deliveryFee |-> orderDeliveryFee,
                   total |-> orderTotal,
                   couponCode |-> couponCode,
                   couponDiscount |-> orderCouponDiscount,
                   route |-> "checkout",
                   couponApplied |-> couponCode # "",
                   validated |-> FALSE,
                   validatedSubtotal |-> 0]
       IN IF saved
            THEN /\ orders' = Append(orders, SavedOrder(doc))
                 /\ last' = [op |-> "POST /api/checkout", status |-> 201]
            ELSE /\ orders' = orders
                 /\ last' = [op |-> "POST /api/checkout", status |-> 500]
    /\ UNCHANGED <<others, coupons, initialUsed, inflight, cart, products>>

-----------------------------------------------------------------------------
(* Order administration *)

\* Order.findOne({ id: orderId }): the position of the order, 0 for none.
FindOrder(orderId) ==
    IF \E i \in DOMAIN orders : orders[i].id = orderId
      THEN CHOOSE i \in DOMAIN orders :
              /\ orders[i].id = orderId
              /\ \A j \in DOMAIN orders : orders[j].id = orderId => i <= j
      ELSE 0

\* Faulty variant: an order that is delivered or cancelled keeps its status.
StatusWrittenUnlessTerminal(order, status) ==
    IF order.status \in {"delivered", "cancelled"} THEN order.status ELSE status

\* order.status = status
StatusWritten(order, status) == status

\* Faulty variant: no write stamps deliveredAt.
DeliveredAtNeverStamped(order, status) == order.deliveredAt

\* if (status === 'delivered') order.deliveredAt = new Date()
DeliveredAtWritten(order, status) ==
    IF status = "delivered" THEN "now" ELSE order.deliveredAt

\* PUT /api/orders/:id/status: 404 for no such order, otherwise the status
\* (and deliveredAt) is written and the order saved.
PutOrderStatus(orderId, status) ==
    LET op == "PUT /api/orders/:id/status"
        i == FindOrder(orderId)
    IN /\ IF i = 0
            THEN /\ orders' = orders
                 /\ last' = [op |-> op, status |-> 404,
                             orderId |-> orderId, orderStatus |-> status]
            ELSE /\ orders' = [orders EXCEPT ![i] =
                       [@ EXCEPT !.status = StatusWritten(orders[i], status),
                                 !.deliveredAt = DeliveredAtWritten(orders[i], status)]]
                 /\ last' = [op |-> op, status |-> 200,
                             orderId |-> orderId, orderStatus |-> status]
       /\ UNCHANGED <<others, coupons, initialUsed, inflight, cart, products>>

\* DELETE /api/orders/:id: 404 for no such order, otherwise deleteOne.
DeleteOrder(orderId) ==
    LET op == "DELETE /api/orders/:id"
    IN /\ IF FindOrder(orderId) = 0
            THEN /\ orders' = orders
                 /\ last' = [op |-> op, status |-> 404, orderId |-> orderId]
            ELSE /\ orders' = [i \in 1..(Len(orders) - 1) |->
                                IF i < FindOrder(orderId)
                                  THEN orders[i] ELSE orders[i + 1]]
                 /\ last' = [op |-> op, status |-> 200, orderId |-> orderId]
       /\ UNCHANGED <<others, coupons, initialUsed, inflight, cart, products>>

-----------------------------------------------------------------------------
(* Product catalog *)

NoProduct == [id |-> 0]

\* Product.findOne({ id: parseInt(productId) }) and its fallbacks: the
\* product with that id, active or not.
FindProduct(productId) ==
    IF productId \in DOMAIN products THEN products[productId] ELSE NoProduct

\* isValidBase64Image(base64String)
isValidBase64Image(base64String) ==
    base64String \in {"data:image/png;base64,AAAA", "data:image/jpeg;base64,BBBB"}

\* PUT /api/products/:id: findOneAndUpdate with the name, price and
\* categoryId of the body, and its mainImage when one is sent (""  : none);
\* an image that is no base64 data URL is refused.
PutProduct(id, body) ==
    /\ IF body.mainImage # "" /\ ~isValidBase64Image(body.mainImage)
         THEN /\ products' = products
              /\ last' = [op |-> "PUT /api/products/:id", status |-> 400]
       ELSE IF id \notin DOMAIN products
         THEN /\ products' = products
              /\ last' = [op |-> "PUT /api/products/:id", status |-> 404]
       ELSE /\ products' = [products EXCEPT ![id] =
                   [@ EXCEPT !.name = body.name,
                             !.price = body.price,
                             !.categoryId = body.categoryId,
                             !.mainImage = IF body.mainImage # ""
                                             THEN body.mainImage ELSE @]]
            /\ last' = [op |-> "PUT /api/products/:id", status |-> 200]
    /\ UNCHANGED <<others, coupons, initialUsed, orders, inflight, cart>>

-----------------------------------------------------------------------------
(* Cart model (models/Cart.js) and the cart routes *)

\* Cart pre-save: auto-increment id, "find max, add one".
NextCartId(lines) ==
    IF lines = <<>> THEN 1
    ELSE 1 + CHOOSE m \in {lines[i].id : i \in DOMAIN lines} :
                 \A i \in DOMAIN lines : lines[i].id <= m

\* Cart.findOne({ userId, productId, selectedOptions }): the position of
\* the first document that matches, 0 when none does.  An embedded document
\* matches a query document when it has the same fields with the same
\* values in the same order.
FindCartLine(lines, userId, productId, selectedOptions) ==
    LET hits == {i \in DOMAIN lines :
                    /\ lines[i].userId = userId
                    /\ lines[i].productId = productId
                    /\ lines[i].selectedOptions = selectedOptions}
    IN IF hits = {} THEN 0
       ELSE CHOOSE i \in hits : \A j \in hits : i <= j

\* attachments && (attachments.text || attachments.images?.length > 0)
HasAttachments(attachments) ==
    attachments.text # "" \/ Len(attachments.images) > 0

\* Faulty variant: the merge always takes the incoming attachments.
MergedLineAlwaysReplacing(line, quantity, attachments) ==
    [line EXCEPT !.quantity = @ + quantity, !.attachments = attachments]

\* The existing line after a merge: quantity += quantity, and the incoming
\* attachments when there are any.
MergedLine(line, quantity, attachments) ==
    [line EXCEPT !.quantity = @ + quantity,
                 !.attachments = IF HasAttachments(attachments)
                                   THEN attachments ELSE @]

\* new Cart({...}): the new line, with the product's name, price and image.
NewCartLine(lines, userId, product, body) ==
    [id |-> NextCartId(lines),
     userId |-> userId,
     productId |-> product.id,
     productName |-> product.name,
     price |-> product.price,
     quantity |-> body.quantity,
     image |-> product.mainImage,
     selectedOptions |-> body.selectedOptions,
     optionsPricing |-> body.optionsPricing,
     attachments |-> body.attachments]

\* Faulty variant: a request whose options differ goes into the user's first line
\* of the product.
AddedToFirstLineOfProduct(lines, userId, product, body) ==
    LET hits == {i \in DOMAIN lines :
                    lines[i].userId = userId /\ lines[i].productId = product.id}
        i == IF hits = {} THEN 0 ELSE CHOOSE k \in hits : \A j \in hits : k <= j
    IN IF i # 0
         THEN [lines EXCEPT ![i] = MergedLine(@, body.quantity, body.attachments)]
         ELSE Append(lines, NewCartLine(lines, userId, product, body))

\* The Cart collection after an add-to-cart for a product that was found:
\* merge into the matching line, or insert a new one.
AddedToCart(lines, userId, product, body) ==
    LET i == FindCartLine(lines, userId, product.id, body.selectedOptions)
    IN IF i # 0
         THEN [lines EXCEPT ![i] = MergedLine(@, body.quantity, body.attachments)]
         ELSE Append(lines, NewCartLine(lines, userId, product, body))

\* The body of both add-to-cart routes: 404 for an unknown product, 200
\* after a merge, 201 after an insert.  last keeps the request.
AddToCart(op, userId, body) ==
    LET product == FindProduct(body.productId)
        status == IF product = NoProduct THEN 404
                  ELSE IF FindCartLine(cart, userId, product.id,
                                       body.selectedOptions) # 0 THEN 200
                  ELSE 201
    IN /\ cart' = IF product = NoProduct THEN cart
                  ELSE AddedToCart(cart, userId, product, body)
       /\ last' = [op |-> op, status |-> status, userId |-> userId, body |-> body]
       /\ UNCHANGED <<others, coupons, initialUsed, orders, inflight, products>>

\* POST /api/cart: the user is body.userId ('guest' when not sent).
PostCart(body) == AddToCart("POST /api/cart", body.userId, body)

\* POST /api/user/:userId/cart
PostUserCart(userId, body) == AddToCart("POST /api/user/:userId/cart", userId, body)

\* PUT /api/user/:userId/cart/:itemId: body.fields names the fields the
\* request carries.  400 for quantity < 1; otherwise findOneAndUpdate of the
\* line { id: itemId, userId } with the fields sent, 404 when there is none.
PutUserCartItem(userId, itemId, body) ==
    LET hits == {i \in DOMAIN cart :
                    cart[i].id = itemId /\ cart[i].userId = userId}
        i == IF hits = {} THEN 0 ELSE CHOOSE k \in hits : \A j \in hits : k <= j
        op == "PUT /api/user/:userId/cart/:itemId"
        Sent(field) == field \in body.fields
    IN /\ IF Sent("quantity") /\ body.quantity < 1
            THEN /\ cart' = cart
                 /\ last' = [op |-> op, status |-> 400]
          ELSE IF i = 0
            THEN /\ cart' = cart
                 /\ last' = [op |-> op, status |-> 404]
          ELSE /\ cart' = [cart EXCEPT ![i] =
                    [@ EXCEPT
                       !.quantity = IF Sent("quantity") THEN body.quantity ELSE @,
                       !.selectedOptions = IF Sent("selectedOptions")
                                             THEN body.selectedOptions ELSE @,
                       !.optionsPricing = IF Sent("optionsPricing")
                                            THEN body.optionsPricing ELSE @,
                       !.attachments = IF Sent("attachments")
                                         THEN body.attachments ELSE @,
                       !.productId = IF Sent("productId")
                                       THEN body.productId ELSE @]]
               /\ last' = [op |-> op, status |-> 200]
       /\ UNCHANGED <<others, coupons, initialUsed, orders, inflight, products>>

\* Faulty variant: a guest line that meets a line of the user is dropped
\* without its quantity being added.
MigratedLineDroppingQuantity(lines, userId, guestItem) ==
    LET i == FindCartLine(lines, userId, guestItem.productId,
                          guestItem.selectedOptions)
        moved == IF i # 0
                   THEN [lines EXCEPT ![i] =
                           MergedLine(@, 0, guestItem.attachments)]
                   ELSE Append(lines, [guestItem EXCEPT
                                          !.id = NextCartId(lines),
                                          !.userId = userId])
    IN SelectSeq(moved, LAMBDA line : line.id # guestItem.id)

\* POST /api/migrate-cart, one guest line: merge it into the user's line
\* with the same product and options or copy it to a new line of the user,
\* then delete the guest line.
MigratedLine(lines, userId, guestItem) ==
    LET i == FindCartLine(lines, userId, guestItem.productId,
                          guestItem.selectedOptions)
        moved == IF i # 0
                   THEN [lines EXCEPT ![i] =
                           MergedLine(@, guestItem.quantity, guestItem.attachments)]
                   ELSE Append(lines, [guestItem EXCEPT
                                          !.id = NextCartId(lines),
                                          !.userId = userId])
    IN SelectSeq(moved, LAMBDA line : line.id # guestItem.id)

\* POST /api/migrate-cart: the loop over the guest lines read at the start.
RECURSIVE MigratedCart(_, _, _)
MigratedCart(lines, userId, guestItems) ==
    IF guestItems = <<>> THEN lines
    ELSE MigratedCart(MigratedLine(lines, userId, Head(guestItems)),
                      userId, Tail(guestItems))

\* POST /api/migrate-cart: mergedCount, the guest lines that were merged
\* into a line of the user.
RECURSIVE MergedCount(_, _, _)
MergedCount(lines, userId, guestItems) ==
    IF guestItems = <<>> THEN 0
    ELSE (IF FindCartLine(lines, userId, Head(guestItems).productId,
                          Head(guestItems).selectedOptions) # 0
            THEN 1 ELSE 0)
         + MergedCount(MigratedLine(lines, userId, Head(guestItems)),
                       userId, Tail(guestItems))

\* POST /api/migrate-cart: 400 without a user id or for 'guest'; otherwise
\* the response counts the copied and the merged guest lines.
MigrateCart(userId) ==
    LET op == "POST /api/migrate-cart"
        guestCartItems == SelectSeq(cart, LAMBDA line : line.userId = "guest")
        mergedCount == MergedCount(cart, userId, guestCartItems)
    IN /\ IF userId = "" \/ userId = "guest"
            THEN /\ cart' = cart
                 /\ last' = [op |-> op, status |-> 400, userId |-> userId,
                             migratedCount |-> 0, mergedCount |-> 0]
            ELSE /\ cart' = MigratedCart(cart, userId, guestCartItems)
                 /\ last' = [op |-> op, status |-> 200, userId |-> userId,
                             migratedCount |-> Len(guestCartItems) - mergedCount,
                             mergedCount |-> mergedCount]
       /\ UNCHANGED <<others, coupons, initialUsed, orders, inflight, products>>

\* GET /api/cart and GET /api/user/:userId/cart: the user's lines, newest
\* first, each with the product as it is in the catalog now (NoProduct for
\* null).
RECURSIVE Reverse(_)
Reverse(s) == IF s = <<>> THEN <<>> ELSE Append(Reverse(Tail(s)), Head(s))

GetCart(userId) ==
    LET items == Reverse(SelectSeq(cart, LAMBDA line : line.userId = userId))
    IN [i \in DOMAIN items |->
          [id |-> items[i].id,
           productId |-> items[i].productId,
           quantity |-> items[i].quantity,
           selectedOptions |-> items[i].selectedOptions,
           optionsPricing |-> items[i].optionsPricing,
           attachments |-> items[i].attachments,
           product |-> FindProduct(items[i].productId)]]

-----------------------------------------------------------------------------
(* Inputs and initial states shared by the specifications *)

Slots == 1..MaxInFlight

Busy == Cardinality({r \in Slots : inflight[r].pc # "idle"})

Item(price, quantity, optionsPricing, totalPrice) ==
    [price |-> price, quantity |-> quantity,
     optionsPricing |-> optionsPricing, totalPrice |-> totalPrice]

Coupon(discountType, discountValue, minOrderAmount, maxUsage, usedCount) ==
    [code |-> "SAVE", isActive |-> TRUE, expiresAt |-> "none",
     discountType |-> discountType, discountValue |-> discountValue,
     minOrderAmount |-> minOrderAmount,
     maxUsage |-> maxUsage, usedCount |-> usedCount]

NoRequest == [op |-> "", status |-> 0]

InitProducts ==
    [id \in {1} |-> [id |-> id, name |-> "gown", price |-> 100,
                     mainImage |-> "gown.jpg", isActive |-> TRUE,
                     categoryId |-> 1]]

InitShop(couponSet) ==
    /\ \E c \in couponSet : coupons = [code \in CouponCodes |-> c]
    /\ initialUsed = [code \in CouponCodes |-> coupons[code].usedCount]
    /\ orders = <<>>
    /\ inflight = [r \in Slots |-> Idle]
    /\ cart = <<>>
    /\ last = NoRequest

InitOthers ==
    /\ documents = <<>>
    /\ pending = <<>>
    /\ categories = <<>>
    /\ wishlist = <<>>
    /\ customers = <<>>
    /\ now = 0

InitWith(couponSet) ==
    /\ InitShop(couponSet)
    /\ products = InitProducts
    /\ InitOthers

-----------------------------------------------------------------------------
(* SpecCoupon: concurrent order creation against one capped coupon *)

RaceCoupons ==
    {Coupon("fixed", 100, m, x, u) :
        m \in {0, 200}, x \in {1, 2}, u \in {0, 1}}

RaceOrderBodies ==
    [items : {<<Item(100, 1, <<>>, 100)>>, <<Item(100, 2, <<>>, 200)>>},
     deliveryFee : {0},
     couponCode : {"", "save"},
     userId : {"guest"}]

RaceCheckoutBodies ==
    [items : {<<Item(100, 1, <<>>, 100)>>},
     subtotal : {100}, deliveryFee : {0}, total : {0},
     couponDiscount : {0, 100},
     appliedCoupon : {"", "SAVE"},
     userId : {"guest"}]

InitCoupon == InitWith(RaceCoupons)

NextCoupon ==
    \/ \E r \in Slots, body \in RaceOrderBodies :
          /\ Len(orders) + Busy < MaxOrders
          /\ OrdersFindCoupon(r, body)
    \/ \E r \in Slots : OrdersSaveCoupon(r)
    \/ \E r \in Slots, saved \in BOOLEAN : OrdersSaveOrder(r, saved)
    \/ \E r \in Slots, cleared \in BOOLEAN : OrdersClearCart(r, cleared)
    \/ \E body \in RaceCheckoutBodies, saved \in BOOLEAN :
          /\ Len(orders) + Busy < MaxOrders
          /\ Checkout(body, saved)

SpecCoupon == InitCoupon /\ [][NextCoupon]_vars

\* The orders in the ledger to which coupon code was applied.
AppliedOrders(code) ==
    {i \in DOMAIN orders :
        orders[i].couponApplied /\ ToUpperCase(orders[i].couponCode) = code}

\* C1: for every coupon with maxUsage set (and initial usedCount <=
\* maxUsage), usedCount <= maxUsage in every reachable state, under every
\* interleaving of the database calls of concurrent POST /api/orders.
C1_UsedCountWithinMaxUsage ==
    \A code \in DOMAIN coupons :
        coupons[code].maxUsage # Unset
            => coupons[code].usedCount <= coupons[code].maxUsage

\* Two requests passed the usage check on the same copy: more orders got the
\* coupon than the cap had left, and usedCount stands at maxUsage.
C1_Witness ==
    \E code \in DOMAIN coupons :
        /\ coupons[code].usedCount = coupons[code].maxUsage
        /\ Cardinality({i \in AppliedOrders(code) : orders[i].route = "orders"})
             > coupons[code].maxUsage - initialUsed[code]

\* C2: once every request has completed, usedCount is the initial value plus
\* the number of created orders to which the coupon was applied.
C2_UsedCountCountsOrders ==
    (\A r \in Slots : inflight[r].pc = "idle")
        => \A code \in DOMAIN coupons :
              coupons[code].usedCount
                 = initialUsed[code] + Cardinality(AppliedOrders(code))

-----------------------------------------------------------------------------
(* SpecTotals: order creation, one request at a time, with the values a    *)
(* client can send                                                         *)

TotalsCoupons ==
    {Coupon("fixed", 300, 0, 2, 0),
     Coupon("percentage", 50, 200, 2, 0),
     Coupon("percentage", 150, 0, 1, 1)}

\* Line items as the storefront sends them: totalPrice is (price + option
\* deltas) * quantity, or 0 when the client leaves it out.
TotalsItems ==
    {<<Item(100, 1, <<>>, 100)>>,
     <<Item(100, 2, <<<<"size", 50>>>>, 300)>>,
     <<Item(200, 1, <<>>, 200), Item(100, 1, <<<<"size", 50>>>>, 150)>>}

TotalsOrderBodies ==
    [items : TotalsItems,
     deliveryFee : {0, 30},
     couponCode : {"", "save", "nope"},
     userId : {"guest"}]

TotalsCheckoutBodies ==
    [items : TotalsItems \cup {<<Item(100, 1, <<>>, 0)>>},
     subtotal : {0, 50}, deliveryFee : {0, 30}, total : {0, 70},
     couponDiscount : {0, 100, 500},
     appliedCoupon : {"", "SAVE"},
     userId : {"guest"}]

InitTotals == InitWith(TotalsCoupons)

NextTotals ==
    \/ \E body \in TotalsOrderBodies :
          /\ Len(orders) + Busy < MaxLedger
          /\ OrdersFindCoupon(1, body)
    \/ OrdersSaveCoupon(1)
    \/ \E saved \in BOOLEAN : OrdersSaveOrder(1, saved)
    \/ \E cleared \in BOOLEAN : OrdersClearCart(1, cleared)
    \/ \E body \in TotalsCheckoutBodies, saved \in BOOLEAN :
          /\ Len(orders) + Busy < MaxLedger
          /\ Checkout(body, saved)

SpecTotals == InitTotals /\ [][NextTotals]_vars

\* The discount the server computes for an order from the stored coupon
\* and the order's subtotal (0 when the coupon is unknown or rejected).
ServerDiscount(order) ==
    LET coupon == FindActiveCoupon(ToUpperCase(order.couponCode))
        result == IF coupon = NoCoupon THEN [error |-> "no coupon", discount |-> 0]
                  ELSE calculateDiscount(coupon, order.subtotal)
    IN IF result.error = "" THEN result.discount ELSE 0

\* C3: an order created by POST /api/checkout with an applied coupon
\* persists the discount the server computes from the stored coupon and the
\* computed subtotal, and the total that follows from it, whatever
\* couponDiscount, subtotal and total the client sent.
C3_CheckoutDiscountIsServerComputed ==
    [][(/\ Len(orders') = Len(orders) + 1
        /\ orders'[Len(orders')].route = "checkout"
        /\ orders'[Len(orders')].couponApplied)
         => LET order == orders'[Len(orders')]
            IN /\ order.couponDiscount = ServerDiscount(order)
               /\ order.total = OrderTotal(order.subtotal, order.deliveryFee,
                                           ServerDiscount(order))]_vars

LineSum(items) ==
    SumSeq([i \in DOMAIN items |->
              (items[i].price + SumValues(items[i].optionsPricing))
                 * items[i].quantity])

\* C5: the subtotal persisted on an order, and the amount its coupon was
\* validated against, is the sum over the items of (unit price + option
\* price deltas) * quantity.
C5_SubtotalIsLineSum ==
    \A i \in DOMAIN orders :
        /\ orders[i].subtotal = LineSum(orders[i].items)
        /\ orders[i].validated
             => orders[i].validatedSubtotal = LineSum(orders[i].items)

-----------------------------------------------------------------------------
(* Cart inputs *)

SizeM == <<<<"size", "M">>>>

SizeMColorR == <<<<"size", "M">>, <<"color", "R">>>>

ColorRSizeM == <<<<"color", "R">>, <<"size", "M">>>>

NoAttachments == [text |-> "", images |-> <<>>]

TextNote == [text |-> "Dr. Sara", images |-> <<>>]

Photo == [text |-> "", images |-> <<"logo.png">>]

AddOps == {"POST /api/cart", "POST /api/user/:userId/cart"}

\* A step of one of the two add-to-cart routes: last' is its request.
AddStep == last'.op \in AddOps /\ inflight' = inflight

\* The request body of POST /api/cart: the body with a userId.
WithUserId(body, userId) == [userId |-> userId] @@ body

\* The lines stay within the bounds of the model.
CartBounded(lines) ==
    /\ Len(lines) <= MaxCartLines
    /\ \A i \in DOMAIN lines : lines[i].quantity <= MaxQuantity

\* A line of user and product whose options are the same option-name ->
\* value mapping as the given ones.
SameTuple(line, userId, productId, selectedOptions) ==
    /\ line.userId = userId
    /\ line.productId = productId
    /\ SameMapping(line.selectedOptions, selectedOptions)

InitCart == InitWith({Coupon("fixed", 100, 0, 1, 0)})

-----------------------------------------------------------------------------
(* SpecCart: add-to-cart, cart-line edits and cart migration *)

CartUsers == {"guest", "u1"}

CartAddBodies ==
    [productId : {1},
     productName : {"gown"}, price : {100}, image : {"gown.jpg"},
     quantity : {1, 2},
     selectedOptions : {SizeM, SizeMColorR, ColorRSizeM},
     optionsPricing : {<<>>},
     attachments : {NoAttachments}]
    \cup
    [productId : {9},
     productName : {"gown"}, price : {100}, image : {"gown.jpg"},
     quantity : {1},
     selectedOptions : {SizeM},
     optionsPricing : {<<>>},
     attachments : {NoAttachments}]

PutBody(fields, quantity, selectedOptions) ==
    [fields |-> fields, quantity |-> quantity,
     selectedOptions |-> selectedOptions, optionsPricing |-> <<>>,
     attachments |-> NoAttachments, productId |-> 1]

CartPutBodies ==
    {PutBody({"quantity"}, 0, <<>>),
     PutBody({"quantity"}, 2, <<>>),
     PutBody({"selectedOptions"}, 0, SizeM)}

\* The ids of the lines in the cart, and 0 for an id no line has.
CartItemIds == {cart[i].id : i \in DOMAIN cart} \cup {0}

NextCart ==
    \/ \E body \in CartAddBodies :
          PostCart(WithUserId(body, "guest")) /\ CartBounded(cart')
    \/ \E userId \in CartUsers \ {"guest"}, body \in CartAddBodies :
          PostUserCart(userId, body) /\ CartBounded(cart')
    \/ \E userId \in CartUsers, itemId \in CartItemIds, body \in CartPutBodies :
          PutUserCartItem(userId, itemId, body) /\ CartBounded(cart')
    \/ \E userId \in CartUsers : MigrateCart(userId) /\ CartBounded(cart')

SpecCart == InitCart /\ [][NextCart]_vars

\* C6: in every reachable state there is at most one cart line per
\* (userId, productId, selectedOptions).
C6_OneLinePerTuple ==
    \A i, j \in DOMAIN cart :
        (/\ i # j
         /\ cart[i].userId = cart[j].userId
         /\ cart[i].productId = cart[j].productId)
            => cart[i].selectedOptions # cart[j].selectedOptions

\* C7: an add-to-cart for a user and product whose cart holds one line with
\* the same options, as a mapping, leaves one line for that tuple, with the
\* quantity of the line plus the requested quantity.
C7_SecondAddMerges ==
    [][LET userId == last'.userId
           body == last'.body
           same == {i \in DOMAIN cart :
                      SameTuple(cart[i], userId, body.productId,
                                body.selectedOptions)}
           after == {i \in DOMAIN cart' :
                       SameTuple(cart'[i], userId, body.productId,
                                 body.selectedOptions)}
       IN (AddStep /\ last'.status # 404 /\ Cardinality(same) = 1)
            => /\ Cardinality(after) = 1
               /\ \A i \in same, k \in after :
                     cart'[k].quantity = cart[i].quantity + body.quantity]_vars

\* C8: an add-to-cart never changes a line of the same user and product
\* whose options differ from the requested ones; when the cart holds such a
\* line and none with the requested options, the add inserts one more line,
\* with the requested options and quantity.
C8_DifferentOptionsNewLine ==
    [][LET userId == last'.userId
           body == last'.body
           differing == {i \in DOMAIN cart :
                           /\ cart[i].userId = userId
                           /\ cart[i].productId = body.productId
                           /\ ~SameMapping(cart[i].selectedOptions,
                                           body.selectedOptions)}
           same == {i \in DOMAIN cart :
                      SameTuple(cart[i], userId, body.productId,
                                body.selectedOptions)}
           new == cart'[Len(cart')]
       IN (AddStep /\ last'.status # 404)
            => /\ \A i \in differing : cart'[i] = cart[i]
               /\ (differing # {} /\ same = {})
                    => /\ Len(cart') = Len(cart) + 1
                       /\ SubSeq(cart', 1, Len(cart)) = cart
                       /\ new.userId = userId
                       /\ new.productId = body.productId
                       /\ new.selectedOptions = body.selectedOptions
                       /\ new.quantity = body.quantity]_vars

\* The last request added a line beside a line of the same user and product
\* with different options.
C8_Witness ==
    /\ last.op \in AddOps
    /\ last.status = 201
    /\ \E i \in DOMAIN cart :
          /\ i < Len(cart)
          /\ cart[i].userId = last.userId
          /\ cart[i].productId = last.body.productId
          /\ ~SameMapping(cart[i].selectedOptions, last.body.selectedOptions)
    /\ cart[Len(cart)].selectedOptions = last.body.selectedOptions

-----------------------------------------------------------------------------
(* SpecMerge: repeated add-to-cart with attachments and option prices *)

MergeAddBodies ==
    [productId : {1},
     productName : {"gown"}, price : {100}, image : {"gown.jpg"},
     quantity : {1},
     selectedOptions : {SizeM},
     optionsPricing : {<<>>, <<<<"size", 50>>>>},
     attachments : {NoAttachments, TextNote, Photo}]

NextMerge ==
    \/ \E body \in MergeAddBodies :
          PostCart(WithUserId(body, "guest")) /\ CartBounded(cart')
    \/ \E userId \in CartUsers \ {"guest"}, body \in MergeAddBodies :
          PostUserCart(userId, body) /\ CartBounded(cart')

SpecMerge == InitCart /\ [][NextMerge]_vars

\* C9: when add-to-cart merges into an existing line, the line's
\* attachments become the incoming ones if those hold a text or an image
\* and stay as they were otherwise; its price, name, image, selectedOptions
\* and optionsPricing do not change.
C9_MergeKeepsLine ==
    [][LET body == last'.body
           i == FindCartLine(cart, last'.userId, body.productId,
                             body.selectedOptions)
       IN (AddStep /\ last'.status = 200)
            => /\ i # 0
               /\ Len(cart') = Len(cart)
               /\ cart'[i].attachments =
                     (IF body.attachments.text # ""
                           \/ Len(body.attachments.images) > 0
                        THEN body.attachments
                        ELSE cart[i].attachments)
               /\ cart'[i].price = cart[i].price
               /\ cart'[i].productName = cart[i].productName
               /\ cart'[i].image = cart[i].image
               /\ cart'[i].selectedOptions = cart[i].selectedOptions
               /\ cart'[i].optionsPricing = cart[i].optionsPricing]_vars

\* The last request merged, without attachments and with other option
\* prices, into a line that keeps its attachments and its option prices.
C9_Witness ==
    /\ last.op \in AddOps
    /\ last.status = 200
    /\ last.body.attachments = NoAttachments
    /\ \E i \in DOMAIN cart :
          /\ cart[i].userId = last.userId
          /\ cart[i].selectedOptions = last.body.selectedOptions
          /\ cart[i].attachments # NoAttachments
          /\ cart[i].optionsPricing # last.body.optionsPricing
          /\ cart[i].quantity > 1

-----------------------------------------------------------------------------
(* SpecCatalog: add-to-cart and catalog edits *)

CatalogAddBodies ==
    [productId : {1},
     productName : {"client name"}, price : {1}, image : {"client.jpg"},
     quantity : {1},
     selectedOptions : {SizeM},
     optionsPricing : {<<>>},
     attachments : {NoAttachments}]

CatalogPutBodies ==
    [name : {"gown"},
     price : {100, 200},
     mainImage : {"", "data:image/png;base64,AAAA", "gown2.jpg"},
     categoryId : {1}]

NextCatalog ==
    \/ \E body \in CatalogAddBodies :
          PostCart(WithUserId(body, "guest")) /\ CartBounded(cart')
    \/ \E userId \in CartUsers \ {"guest"}, body \in CatalogAddBodies :
          PostUserCart(userId, body) /\ CartBounded(cart')
    \/ \E id \in {1, 2}, body \in CatalogPutBodies : PutProduct(id, body)

SpecCatalog == InitCart /\ [][NextCatalog]_vars

\* The prices GET /api/cart reports for the user's lines.
ReportedPrices(userId) ==
    [i \in DOMAIN GetCart(userId) |-> GetCart(userId)[i].product.price]

\* C10: a new cart line stores the catalog's price, name and image at the
\* time of the add, and a PUT /api/products/:id leaves the price stored on,
\* and reported for, every existing cart line unchanged.
C10_LinePriceIsSnapshot ==
    [][/\ (AddStep /\ last'.status = 201)
            => LET new == cart'[Len(cart')]
                   product == products[last'.body.productId]
               IN /\ new.price = product.price
                  /\ new.productName = product.name
                  /\ new.image = product.mainImage
       /\ (last'.op = "PUT /api/products/:id" /\ inflight' = inflight)
            => /\ \A i \in DOMAIN cart : cart'[i].price = cart[i].price
               /\ \A userId \in CartUsers :
                     ReportedPrices(userId)' = ReportedPrices(userId)]_vars

-----------------------------------------------------------------------------
(* Coupon validation and coupon administration *)

ValidateOp == "POST /api/coupons/validate"

\* The response of POST /api/coupons/validate for the coupons as they are:
\* 404 for no active coupon of that code, 400 with calculateDiscount's
\* error, 200 with the discountAmount.
ValidateResponse(body) ==
    LET coupon == FindActiveCoupon(ToUpperCase(body.code))
        result == calculateDiscount(coupon, body.totalAmount)
    IN IF coupon = NoCoupon
         THEN [op |-> ValidateOp, status |-> 404, body |-> body,
               message |-> "invalid coupon", discountAmount |-> Unset]
       ELSE IF result.error # ""
         THEN [op |-> ValidateOp, status |-> 400, body |-> body,
               message |-> result.error, discountAmount |-> Unset]
       ELSE [op |-> ValidateOp, status |-> 200, body |-> body,
             message |-> "", discountAmount |-> result.discount]

\* Faulty variant: a validation that counts as a use of the coupon.
PostCouponsValidateCounting(body) ==
    /\ last' = ValidateResponse(body)
    /\ coupons' = IF last'.status = 200
                    THEN [coupons EXCEPT ![ToUpperCase(body.code)].usedCount = @ + 1]
                    ELSE coupons
    /\ UNCHANGED <<others, initialUsed, orders, inflight, cart, products>>

\* POST /api/coupons/validate: findOne, calculateDiscount, the response;
\* no document is saved.
PostCouponsValidate(body) ==
    /\ last' = ValidateResponse(body)
    /\ UNCHANGED <<others, coupons, initialUsed, orders, inflight, cart, products>>

\* A step of POST /api/coupons/validate: last' is its response.
ValidateStep == last'.op = ValidateOp /\ inflight' = inflight

-----------------------------------------------------------------------------
(* SpecValidate: coupon validation beside order creation *)

ValidateCoupons ==
    {Coupon("fixed", 100, 0, 2, 1),
     Coupon("fixed", 100, 0, 1, 1),
     Coupon("percentage", 50, 200, 2, 0),
     [Coupon("fixed", 100, 0, 2, 0) EXCEPT !.expiresAt = "past"],
     [Coupon("fixed", 100, 0, 2, 0) EXCEPT !.isActive = FALSE]}

ValidateBodies == [code : {"save", "nope"}, totalAmount : {100, 300}]

ValidateOrderBodies ==
    [items : {<<Item(100, 1, <<>>, 100)>>, <<Item(100, 3, <<>>, 300)>>},
     deliveryFee : {0},
     couponCode : {"", "save", "nope"},
     userId : {"guest"}]

InitValidate == InitWith(ValidateCoupons)

NextValidate ==
    \/ \E body \in ValidateBodies : PostCouponsValidate(body)
    \/ \E body \in ValidateOrderBodies :
          /\ Len(orders) + Busy < MaxLedger
          /\ OrdersFindCoupon(1, body)
    \/ OrdersSaveCoupon(1)
    \/ \E saved \in BOOLEAN : OrdersSaveOrder(1, saved)
    \/ \E cleared \in BOOLEAN : OrdersClearCart(1, cleared)

SpecValidate == InitValidate /\ [][NextValidate]_vars

\* C11: POST /api/coupons/validate leaves every coupon field unchanged, and
\* a validation that repeats the previous one, with no order in between
\* (none completed since, as last shows, and none in flight), gives the same
\* response.
C11_ValidationIsReadOnly ==
    [][ValidateStep
         => /\ coupons' = coupons
            /\ (last.op = ValidateOp /\ last.body = last'.body /\ Busy = 0)
                 => last' = last]_vars

\* A validation was accepted for a coupon with one use left, and the
\* coupon's usedCount is what it was.
C11_Witness ==
    /\ last.op = ValidateOp
    /\ last.status = 200
    /\ \E code \in DOMAIN coupons :
          /\ code = ToUpperCase(last.body.code)
          /\ coupons[code].usedCount = initialUsed[code]
          /\ coupons[code].usedCount + 1 = coupons[code].maxUsage

Exhausted(code) ==
    LET coupon == FindActiveCoupon(ToUpperCase(code))
    IN coupon # NoCoupon /\ coupon.usedCount = coupon.maxUsage

\* C15: a coupon with usedCount = maxUsage is rejected whatever the
\* subtotal: POST /api/coupons/validate answers an error without a
\* discountAmount, and a POST /api/orders that reads the coupon in that
\* state applies couponDiscount 0 and goes on without incrementing
\* usedCount; usedCount only changes in the save of a request that was
\* given a discount.
C15_ExhaustedCouponIsRejected ==
    [][/\ (ValidateStep /\ Exhausted(last'.body.code))
            => /\ last'.status = 400
               /\ last'.discountAmount = Unset
       /\ \A r \in Slots :
             (/\ inflight[r].pc = "idle"
              /\ inflight'[r].pc # "idle"
              /\ Exhausted(inflight'[r].body.couponCode))
                => /\ inflight'[r].couponDiscount = 0
                   /\ ~inflight'[r].couponApplied
                   /\ inflight'[r].pc = "saveOrder"
       /\ coupons' # coupons
            => \E r \in Slots : /\ inflight[r].pc = "saveCoupon"
                                /\ inflight[r].couponApplied]_vars

\* A coupon exhausted from the start was refused by the validation, and an
\* order that named it was created without a discount.
C15_Witness ==
    /\ last.op = ValidateOp
    /\ last.status = 400
    /\ last.message = "usage limit"
    /\ \A code \in DOMAIN coupons :
          /\ coupons[code].usedCount = coupons[code].maxUsage
          /\ coupons[code].usedCount = initialUsed[code]
    /\ \E i \in DOMAIN orders :
          /\ orders[i].route = "orders"
          /\ orders[i].couponCode = "save"
          /\ orders[i].couponDiscount = 0
          /\ ~orders[i].couponApplied

-----------------------------------------------------------------------------
(* SpecDiscount: calculateDiscount over the coupons the admin routes store *)

\* The code of the coupon with that id ("" : no coupon has it).
CouponOfId(id) == IF id = 1 THEN "SAVE" ELSE ""

\* PUT /api/coupons/:id: findOneAndUpdate with the body as the update; the
\* fields of the body replace those of the stored coupon, unvalidated.
PutCoupon(id, update) ==
    /\ IF CouponOfId(id) \in DOMAIN coupons
         THEN /\ coupons' = [coupons EXCEPT ![CouponOfId(id)] = update @@ @]
              /\ last' = [op |-> "PUT /api/coupons/:id", status |-> 200]
         ELSE /\ coupons' = coupons
              /\ last' = [op |-> "PUT /api/coupons/:id", status |-> 404]
    /\ UNCHANGED <<others, initialUsed, orders, inflight, cart, products>>

\* coupon.calculateDiscount(subtotal) on the stored coupon: last' holds the
\* coupon, the subtotal and the result.
CalculateDiscount(code, subtotal) ==
    /\ last' = [op |-> "calculateDiscount", status |-> 0,
                coupon |-> coupons[code], subtotal |-> subtotal,
                result |-> calculateDiscount(coupons[code], subtotal)]
    /\ UNCHANGED <<others, coupons, initialUsed, orders, inflight, cart, products>>

DiscountCoupons ==
    {Coupon("fixed", 100, 0, 2, 0), Coupon("percentage", 100, 0, Unset, 0)}

DiscountUpdates ==
    {[isActive |-> FALSE], [expiresAt |-> "past"], [usedCount |-> 2],
     [minOrderAmount |-> 200], [discountValue |-> 150],
     [discountValue |-> -50], [discountType |-> "percentage"]}

DiscountSubtotals == {0, 100, 300}

InitDiscount == InitWith(DiscountCoupons)

NextDiscount ==
    \/ \E id \in {1, 2}, update \in DiscountUpdates : PutCoupon(id, update)
    \/ \E code \in CouponCodes, subtotal \in DiscountSubtotals :
          CalculateDiscount(code, subtotal)
    \/ \E code \in {"save"}, totalAmount \in DiscountSubtotals :
          PostCouponsValidate([code |-> code, totalAmount |-> totalAmount])

SpecDiscount == InitDiscount /\ [][NextDiscount]_vars

\* The four checks of a coupon against a subtotal, in their order, each
\* TRUE when it fails, and their reasons.
FailedChecks(coupon, subtotal) ==
    <<~coupon.isActive,
      coupon.expiresAt = "past",
      coupon.maxUsage # Unset /\ coupon.usedCount >= coupon.maxUsage,
      subtotal < coupon.minOrderAmount>>

RejectionReasons == <<"inactive", "expired", "usage limit", "below minimum">>

\* C13: calculateDiscount rejects exactly when one of the four checks fails,
\* with the reason of the first failing check in the order inactive,
\* expired, usage limit, below minimum.
C13_FirstFailingCheckWins ==
    last.op = "calculateDiscount"
       => LET failed == FailedChecks(last.coupon, last.subtotal)
              failing == {k \in 1..4 : failed[k]}
          IN IF failing = {}
               THEN last.result.error = ""
               ELSE \E k \in failing :
                       /\ \A j \in failing : k <= j
                       /\ last.result.error = RejectionReasons[k]

\* An expired coupon was applied to a subtotal below its minimum and
\* rejected as expired.
C13_Witness ==
    /\ last.op = "calculateDiscount"
    /\ last.coupon.isActive
    /\ last.coupon.expiresAt = "past"
    /\ last.subtotal < last.coupon.minOrderAmount
    /\ last.result.error = "expired"

\* C14: for an accepted coupon and a subtotal S the discount is
\* min(S * V / 100, S) for a percentage coupon and min(F, S) for a fixed
\* one, and 0 <= discount <= S whatever the discountValue.
C14_DiscountWithinSubtotal ==
    (last.op = "calculateDiscount" /\ last.result.error = "")
       => LET S == last.subtotal
              V == last.coupon.discountValue
              d == last.result.discount
          IN /\ d = (IF last.coupon.discountType = "percentage"
                       THEN Min((S * V) \div 100, S)
                       ELSE Min(V, S))
             /\ 0 <= d
             /\ d <= S

-----------------------------------------------------------------------------
(* SpecMigrate: guest and user carts with attachments, and cart migration *)

MigrateOp == "POST /api/migrate-cart"

MigrateAddBodies ==
    [productId : {1},
     productName : {"gown"}, price : {100}, image : {"gown.jpg"},
     quantity : {1},
     selectedOptions : {SizeM, SizeMColorR},
     optionsPricing : {<<>>},
     attachments : {NoAttachments, TextNote, Photo}]

NextMigrate ==
    \/ \E body \in MigrateAddBodies :
          PostCart(WithUserId(body, "guest")) /\ CartBounded(cart')
    \/ \E userId \in CartUsers \ {"guest"}, body \in MigrateAddBodies :
          PostUserCart(userId, body) /\ CartBounded(cart')
    \/ \E userId \in CartUsers : MigrateCart(userId) /\ CartBounded(cart')

SpecMigrate == InitCart /\ [][NextMigrate]_vars

\* The lines of the user with that product and those options.
LinesOf(lines, userId, productId, selectedOptions) ==
    {i \in DOMAIN lines :
        /\ lines[i].userId = userId
        /\ lines[i].productId = productId
        /\ lines[i].selectedOptions = selectedOptions}

\* The quantity the user holds of the product with those options.
RECURSIVE QuantityOf(_, _, _, _)
QuantityOf(lines, userId, productId, selectedOptions) ==
    IF lines = <<>> THEN 0
    ELSE (IF /\ Head(lines).userId = userId
             /\ Head(lines).productId = productId
             /\ Head(lines).selectedOptions = selectedOptions
            THEN Head(lines).quantity ELSE 0)
         + QuantityOf(Tail(lines), userId, productId, selectedOptions)

\* C16: after a POST /api/migrate-cart for user U that completes, no guest
\* line remains; for every (productId, selectedOptions) of a line, U holds
\* one line of it with U's quantity before plus the guest quantity before;
\* and where one guest line met one line of U, U's attachments are the
\* guest's when those hold a text or an image, and U's own otherwise.
C16_MigrationSumsQuantities ==
    [][(last'.op = MigrateOp /\ last'.status = 200)
         => LET U == last'.userId
            IN /\ \A i \in DOMAIN cart' : cart'[i].userId # "guest"
               /\ \A k \in DOMAIN cart :
                     LET p == cart[k].productId
                         o == cart[k].selectedOptions
                         mine == LinesOf(cart, U, p, o)
                         guests == LinesOf(cart, "guest", p, o)
                         after == LinesOf(cart', U, p, o)
                     IN /\ QuantityOf(cart', U, p, o)
                             = QuantityOf(cart, U, p, o)
                                 + QuantityOf(cart, "guest", p, o)
                        /\ (mine \cup guests # {}) => Cardinality(after) = 1
                        /\ \A m \in mine, g \in guests, a \in after :
                              cart'[a].attachments =
                                 (IF cart[g].attachments.text # ""
                                       \/ Len(cart[g].attachments.images) > 0
                                    THEN cart[g].attachments
                                    ELSE cart[m].attachments)]_vars

\* A migration merged a guest line without attachments into a line of the
\* user, which kept its attachments and has the summed quantity.
C16_Witness ==
    /\ last.op = MigrateOp
    /\ last.status = 200
    /\ last.mergedCount = 1
    /\ \E i \in DOMAIN cart :
          /\ cart[i].userId = last.userId
          /\ cart[i].attachments # NoAttachments
          /\ cart[i].quantity = 2
    /\ Len(cart) = 1

-----------------------------------------------------------------------------
(* SpecStatus: order creation, status writes, order deletion, catalog edits *)

StatusOp == "PUT /api/orders/:id/status"

OrderStatuses == {"pending", "processing", "shipped", "delivered", "cancelled"}

OrderIds == 1..(MaxOrderId + 1)

StatusOrderBody ==
    [items |-> <<Item(100, 1, <<>>, 100)>>, deliveryFee |-> 0,
     couponCode |-> "save", userId |-> "guest"]

StatusCheckoutBody ==
    [items |-> <<Item(100, 1, <<>>, 100)>>, subtotal |-> 0, deliveryFee |-> 0,
     total |-> 0, couponDiscount |-> 0, appliedCoupon |-> "",
     userId |-> "guest"]

StatusPutBodies ==
    [name : {"gown"}, price : {100, 200}, mainImage : {""}, categoryId : {1}]

NextStatus ==
    \/ /\ Len(orders) + Busy < MaxLedger
       /\ NextOrderId <= MaxOrderId
       /\ OrdersFindCoupon(1, StatusOrderBody)
    \/ OrdersSaveCoupon(1)
    \/ \E saved \in BOOLEAN : OrdersSaveOrder(1, saved)
    \/ \E cleared \in BOOLEAN : OrdersClearCart(1, cleared)
    \/ \E saved \in BOOLEAN :
          /\ Len(orders) + Busy < MaxLedger
          /\ NextOrderId <= MaxOrderId
          /\ Checkout(StatusCheckoutBody, saved)
    \/ \E orderId \in OrderIds, status \in OrderStatuses :
          PutOrderStatus(orderId, status)
    \/ \E orderId \in OrderIds : DeleteOrder(orderId)
    \/ \E body \in StatusPutBodies : PutProduct(1, body)

SpecStatus == InitCart /\ [][NextStatus]_vars

\* A step of PUT /api/orders/:id/status: last' is its request and response.
StatusStep == last'.op = StatusOp /\ inflight' = inflight

\* C17: for an existing order in any status, PUT /api/orders/:id/status with
\* any status succeeds and sets the order's status to it; the other orders
\* stay as they are.
C17_StatusWritesAreUnguarded ==
    [][(StatusStep /\ FindOrder(last'.orderId) # 0)
         => LET i == FindOrder(last'.orderId)
            IN /\ last'.status = 200
               /\ Len(orders') = Len(orders)
               /\ orders'[i].status = last'.orderStatus
               /\ \A j \in DOMAIN orders : j # i => orders'[j] = orders[j]]_vars

\* An order that had been delivered was put back to pending.
C17_Witness ==
    /\ last.op = StatusOp
    /\ last.status = 200
    /\ last.orderStatus = "pending"
    /\ \E i \in DOMAIN orders :
          /\ orders[i].id = last.orderId
          /\ orders[i].status = "pending"
          /\ orders[i].deliveredAt = "now"

\* C18: a new order starts in status pending, and every order whose status
\* is delivered has deliveredAt set.
C18_DeliveredIsStamped ==
    [][/\ Len(orders') > Len(orders)
            => orders'[Len(orders')].status = "pending"
       /\ \A i \in DOMAIN orders' :
             orders'[i].status = "delivered"
                => orders'[i].deliveredAt # "none"]_vars

\* An order created by POST /api/orders was written delivered and stamped.
C18_Witness ==
    \E i \in DOMAIN orders :
        /\ orders[i].route = "orders"
        /\ orders[i].status = "delivered"
        /\ orders[i].deliveredAt = "now"

\* C19: no step removes an order from the ledger or changes its items,
\* subtotal, couponDiscount or total.
C19_LedgerIsAppendOnly ==
    [][\A i \in DOMAIN orders :
          \E j \in DOMAIN orders' :
             /\ orders'[j].id = orders[i].id
             /\ orders'[j].items = orders[i].items
             /\ orders'[j].subtotal = orders[i].subtotal
             /\ orders'[j].couponDiscount = orders[i].couponDiscount
             /\ orders'[j].total = orders[i].total]_vars

-----------------------------------------------------------------------------
(* SpecClear: order creation over filled carts, with failing database calls *)

ClearAddBody ==
    [productId |-> 1, productName |-> "gown", price |-> 100,
     image |-> "gown.jpg", quantity |-> 1, selectedOptions |-> SizeM,
     optionsPricing |-> <<>>, attachments |-> NoAttachments]

ClearOrderBodies ==
    [items : {<<Item(100, 1, <<>>, 100)>>},
     deliveryFee : {0},
     couponCode : {"", "save"},
     userId : CartUsers]

NextClear ==
    \/ PostCart(WithUserId(ClearAddBody, "guest")) /\ CartBounded(cart')
    \/ \E userId \in CartUsers \ {"guest"} :
          PostUserCart(userId, ClearAddBody) /\ CartBounded(cart')
    \/ \E body \in ClearOrderBodies :
          /\ Len(orders) + Busy < MaxLedger
          /\ OrdersFindCoupon(1, body)
    \/ OrdersSaveCoupon(1)
    \/ \E saved \in BOOLEAN : OrdersSaveOrder(1, saved)
    \/ \E cleared \in BOOLEAN : OrdersClearCart(1, cleared)

SpecClear == InitCart /\ [][NextClear]_vars

\* C20: when POST /api/orders has saved the order and the clearing of the
\* cart fails, the request ends with 500 and the step changes neither the
\* ledger, which holds the order, nor the coupons, nor the cart.
C20_FailedClearKeepsOrder ==
    [][\A r \in Slots :
          (/\ inflight[r].pc = "clearCart"
           /\ inflight'[r].pc = "idle"
           /\ last'.status = 500)
             => /\ orders' = orders
                /\ coupons' = coupons
                /\ cart' = cart
                /\ \E i \in DOMAIN orders' :
                      /\ orders'[i].route = "orders"
                      /\ orders'[i].couponCode = inflight[r].body.couponCode
                      /\ orders'[i].couponDiscount = inflight[r].couponDiscount]_vars

\* A POST /api/orders ended with 500 after its order, with the coupon
\* applied and counted, was saved; the user's cart line is still there.
C20_Witness ==
    /\ last.op = "POST /api/orders"
    /\ last.status = 500
    /\ \A r \in Slots : inflight[r].pc = "idle"
    /\ \E i \in DOMAIN orders :
          /\ orders[i].route = "orders"
          /\ orders[i].couponApplied
    /\ \A code \in DOMAIN coupons :
          coupons[code].usedCount = initialUsed[code] + 1
    /\ \E i \in DOMAIN cart : cart[i].userId = "guest"

-----------------------------------------------------------------------------
(* Generated ids: "find max, add one" followed by an insert *)

MaxDocuments == 3  \* documents in the collections with generated ids

IdCollections == {"categories", "products", "customers", "coupons"}

\* Collections whose create handler passes the request body to the model,
\* so that the client may supply the id itself.
BodyIdCollections == {"customers", "coupons"}

\* Collections whose schema declares the id required; the built-in
\* validation of save() may run before the hook that assigns the id.
RequiredIdCollections == {"categories", "products"}

NoPending == [op |-> "none"]

PendingBusy == Cardinality({r \in Slots : pending[r].op # "none"})

RECURSIVE MaxOf(_)
MaxOf(s) == IF s = <<>> THEN 0 ELSE Max(Head(s), MaxOf(Tail(s)))

\* findOne().sort({id: -1}), then lastDocument ? lastDocument.id + 1 : 1
GeneratedId(c) == IF documents[c] = <<>> THEN 1 ELSE MaxOf(documents[c]) + 1

\* Faulty variant: the collection has no unique index on id.
InsertAcceptedWithoutIndex(c, id) == TRUE

\* id: { type: Number, unique: true }: the unique index rejects an insert
\* whose id is already stored.
InsertAccepted(c, id) == id \notin Range(documents[c])

\* The part of a create up to the insert: validation, then the id read.
\* supplied = 0 stands for a body without id.
CreateRead(r, c, supplied, validated) ==
    /\ pending[r].op = "none"
    /\ supplied # 0 => c \in BodyIdCollections
    /\ IF c \in RequiredIdCollections /\ ~validated
       THEN /\ last' = [op |-> "create", status |-> 500, collection |-> c,
                        id |-> 0, generated |-> FALSE]
            /\ pending' = pending
       ELSE /\ pending' = [pending EXCEPT ![r] =
                  [op |-> "create", collection |-> c,
                   id |-> IF supplied # 0 THEN supplied ELSE GeneratedId(c),
                   generated |-> supplied = 0]]
            /\ last' = last
    /\ UNCHANGED <<coupons, initialUsed, orders, inflight, cart, products,
                   documents, categories, wishlist, customers, now>>

\* The insert of save(): 201 with the document, or 500 on a duplicate key.
CreateInsert(r) ==
    /\ pending[r].op = "create"
    /\ LET c == pending[r].collection
           id == pending[r].id
       IN IF InsertAccepted(c, id)
          THEN /\ documents' = [documents EXCEPT ![c] = Append(@, id)]
               /\ last' = [op |-> "create", status |-> 201, collection |-> c,
                           id |-> id, generated |-> pending[r].generated]
          ELSE /\ documents' = documents
               /\ last' = [op |-> "create", status |-> 500, collection |-> c,
                           id |-> id, generated |-> pending[r].generated]
    /\ pending' = [pending EXCEPT ![r] = NoPending]
    /\ UNCHANGED <<coupons, initialUsed, orders, inflight, cart, products,
                   categories, wishlist, customers, now>>

-----------------------------------------------------------------------------
(* SpecIds: concurrent creates in the collections with generated ids *)

SuppliedIds == {0, 1, 2}

InitIds ==
    /\ InitShop({Coupon("fixed", 100, 0, 1, 0)})
    /\ products = InitProducts
    /\ documents = [c \in IdCollections |-> <<>>]
    /\ pending = [r \in Slots |-> NoPending]
    /\ categories = <<>>
    /\ wishlist = <<>>
    /\ customers = <<>>
    /\ now = 0

StoredDocuments ==
    Len(documents["categories"]) + Len(documents["products"])
        + Len(documents["customers"]) + Len(documents["coupons"])

NextIds ==
    \/ \E r \in Slots, c \in IdCollections, supplied \in SuppliedIds,
          validated \in BOOLEAN :
          /\ StoredDocuments + PendingBusy < MaxDocuments
          /\ CreateRead(r, c, supplied, validated)
    \/ \E r \in Slots : CreateInsert(r)

SpecIds == InitIds /\ [][NextIds]_vars

CreateStep ==
    /\ documents' # documents
    /\ last'.op = "create"
    /\ last'.status = 201

C22_FailedSaveKeepsUsedCount ==
    [][\A r \in Slots :
          (/\ inflight[r].pc = "saveOrder"
           /\ inflight'[r].pc = "idle"
           /\ last'.status = 500
           /\ inflight[r].validated)
             => coupons'[inflight[r].coupon.code].usedCount
                    = inflight[r].coupon.usedCount]_vars

-----------------------------------------------------------------------------
(* Route dispatch: the first registered route that matches serves *)

\* parseInt of a path segment that is no number; no stored id equals it.
NaN == -2

\* parseInt(req.params.id)
ParseInt(segment) ==
    CASE segment = "1" -> 1
      [] segment = "2" -> 2
      [] OTHER -> NaN

PathParameters == {":id", ":userId", ":itemId"}

Route(method, pattern, handler) ==
    [method |-> method, pattern |-> pattern, handler |-> handler]

\* The order and cart routes of the claim, in the order of their app.get and
\* app.put calls.
RouteTable ==
    <<Route("GET", <<"api", "orders">>, "GET /api/orders"),
      Route("GET", <<"api", "orders", ":id">>, "GET /api/orders/:id"),
      Route("GET", <<"api", "orders", "stats">>, "GET /api/orders/stats"),
      Route("PUT", <<"api", "user", ":userId", "cart", ":itemId">>,
            "PUT /api/user/:userId/cart/:itemId"),
      Route("PUT", <<"api", "user", ":userId", "cart", "update-options">>,
            "PUT /api/user/:userId/cart/update-options")>>

\* A route matches a request of its method whose path has as many segments
\* as the pattern, each equal to the pattern's or standing for a parameter.
Matches(route, method, path) ==
    /\ route.method = method
    /\ Len(route.pattern) = Len(path)
    /\ \A k \in DOMAIN path :
          route.pattern[k] \in PathParameters \/ route.pattern[k] = path[k]

\* The handler of the first matching route, "none" when no route matches.
Dispatch(method, path) ==
    LET hits == {k \in DOMAIN RouteTable : Matches(RouteTable[k], method, path)}
    IN IF hits = {} THEN "none"
       ELSE RouteTable[CHOOSE k \in hits : \A j \in hits : k <= j].handler

\* GET /api/orders
GetOrders ==
    /\ last' = [op |-> "GET /api/orders", status |-> 200]
    /\ UNCHANGED <<others, coupons, initialUsed, orders, inflight, cart, products>>

\* GET /api/orders/:id: 404 when no order has the id; an id that is no
\* number is not found or fails the cast of the query (500).
GetOrder(orderId) ==
    /\ \E status \in (IF orderId = NaN THEN {404, 500}
                      ELSE IF FindOrder(orderId) = 0 THEN {404} ELSE {200}) :
          last' = [op |-> "GET /api/orders/:id", status |-> status]
    /\ UNCHANGED <<others, coupons, initialUsed, orders, inflight, cart, products>>

\* GET /api/orders/stats: counts and revenue, read only.
GetOrdersStats ==
    /\ last' = [op |-> "GET /api/orders/stats", status |-> 200]
    /\ UNCHANGED <<others, coupons, initialUsed, orders, inflight, cart, products>>

\* PUT /api/user/:userId/cart/update-options: Cart.findOne({ userId,
\* productId }), 404 for none; else the options and attachments sent are
\* set on that line and saved.
PutUserCartUpdateOptions(userId, body) ==
    LET hits == {i \in DOMAIN cart :
                    cart[i].userId = userId /\ cart[i].productId = body.productId}
        i == IF hits = {} THEN 0 ELSE CHOOSE k \in hits : \A j \in hits : k <= j
        op == "PUT /api/user/:userId/cart/update-options"
        Sent(field) == field \in body.fields
    IN /\ IF i = 0
            THEN /\ cart' = cart
                 /\ last' = [op |-> op, status |-> 404]
            ELSE /\ cart' = [cart EXCEPT ![i] =
                      [@ EXCEPT
                         !.selectedOptions = IF Sent("selectedOptions")
                                               THEN body.selectedOptions ELSE @,
                         !.attachments = IF Sent("attachments")
                                           THEN body.attachments ELSE @]]
                 /\ last' = [op |-> op, status |-> 200]
       /\ UNCHANGED <<others, coupons, initialUsed, orders, inflight, products>>

\* The response to a request no route matches.
NoRoute ==
    /\ last' = [op |-> "none", status |-> 404]
    /\ UNCHANGED <<others, coupons, initialUsed, orders, inflight, cart, products>>

\* One request, served by the handler the dispatch selects, with the path
\* parameters the matched pattern binds.
Serve(method, path, body) ==
    LET handler == Dispatch(method, path)
    IN CASE handler = "GET /api/orders" -> GetOrders
         [] handler = "GET /api/orders/:id" -> GetOrder(ParseInt(path[3]))
         [] handler = "GET /api/orders/stats" -> GetOrdersStats
         [] handler = "PUT /api/user/:userId/cart/:itemId" ->
                PutUserCartItem(path[3], ParseInt(path[5]), body)
         [] handler = "PUT /api/user/:userId/cart/update-options" ->
                PutUserCartUpdateOptions(path[3], body)
         [] OTHER -> NoRoute

-----------------------------------------------------------------------------
(* SpecRoutes: requests to the order and cart routes *)

StatsPath == <<"api", "orders", "stats">>

UpdateOptionsPath(userId) == <<"api", "user", userId, "cart", "update-options">>

RoutePaths ==
    {<<"api", "orders">>, <<"api", "orders", "1">>, StatsPath,
     <<"api", "user", "u1", "cart", "1">>, <<"api", "user", "u1", "cart", "2">>,
     UpdateOptionsPath("u1"), <<"api", "user", "u1">>}

RouteBodies ==
    {PutBody({"quantity"}, 2, <<>>),
     PutBody({"productId", "selectedOptions"}, 0, SizeMColorR),
     PutBody({"productId", "attachments"}, 0, <<>>)}

RouteAddBodies ==
    [productId : {1}, productName : {"gown"}, price : {100},
     image : {"gown.jpg"}, quantity : {1}, selectedOptions : {SizeM, <<>>},
     optionsPricing : {<<>>}, attachments : {NoAttachments, TextNote}]

NextRoutes ==
    \/ \E body \in RouteAddBodies :
          PostUserCart("u1", body) /\ CartBounded(cart')
    \/ /\ Len(orders) < MaxLedger
       /\ Checkout(StatusCheckoutBody, TRUE)
    \/ \E method \in {"GET", "PUT"}, path \in RoutePaths, body \in RouteBodies :
          Serve(method, path, body)

SpecRoutes == InitCart /\ [][NextRoutes]_vars

\* C23: a request for a route whose last segment is a literal is served by
\* that route's own handler: GET /api/orders/stats by the stats handler,
\* PUT /api/user/:userId/cart/update-options by the options-update handler.
C23_LiteralRoutesServed ==
    [][\A body \in RouteBodies :
          /\ Serve("GET", StatsPath, body)
                => last'.op = "GET /api/orders/stats"
          /\ Serve("PUT", UpdateOptionsPath("u1"), body)
                => last'.op = "PUT /api/user/:userId/cart/update-options"]_vars

-----------------------------------------------------------------------------
(* POST /api/migrate-cart, one database round per step *)

\* Cart.deleteOne({ _id: guestItem._id }): the guest document that was
\* read goes, if it is still there.
WithoutGuestItem(lines, guestItem) ==
    SelectSeq(lines, LAMBDA line :
                 ~(line.id = guestItem.id /\ line.userId = "guest"))

\* One turn of the loop: the guest line as it was read is merged into the
\* user's matching line or copied to a new line of the user, then deleted.
MigratedItem(lines, userId, guestItem) ==
    LET i == FindCartLine(lines, userId, guestItem.productId,
                          guestItem.selectedOptions)
        moved == IF i # 0
                   THEN [lines EXCEPT ![i] =
                           MergedLine(@, guestItem.quantity, guestItem.attachments)]
                   ELSE Append(lines, [guestItem EXCEPT
                                          !.id = NextCartId(lines),
                                          !.userId = userId])
    IN WithoutGuestItem(moved, guestItem)

\* const guestCartItems = await Cart.find({ userId: 'guest' }); 400 without
\* a user id or for 'guest', and the response at once when there is no
\* guest line.
MigrateRead(r, userId) ==
    LET guestCartItems == SelectSeq(cart, LAMBDA line : line.userId = "guest")
    IN /\ pending[r].op = "none"
       /\ IF userId = "" \/ userId = "guest"
            THEN /\ pending' = pending
                 /\ last' = [op |-> "POST /api/migrate-cart", status |-> 400,
                             userId |-> userId,
                             migratedCount |-> 0, mergedCount |-> 0]
          ELSE IF guestCartItems = <<>>
            THEN /\ pending' = pending
                 /\ last' = [op |-> "POST /api/migrate-cart", status |-> 200,
                             userId |-> userId,
                             migratedCount |-> 0, mergedCount |-> 0]
          ELSE /\ pending' = [pending EXCEPT ![r] =
                     [op |-> "migrate", userId |-> userId,
                      items |-> guestCartItems,
                      migratedCount |-> 0, mergedCount |-> 0]]
               /\ last' = last
       /\ UNCHANGED <<coupons, initialUsed, orders, inflight, cart, products,
                      documents, categories, wishlist, customers, now>>

\* for (const guestItem of guestCartItems) { ... }: one guest line.
MigrateItem(r) ==
    /\ pending[r].op = "migrate"
    /\ pending[r].items # <<>>
    /\ LET guestItem == Head(pending[r].items)
           userId == pending[r].userId
           merged == FindCartLine(cart, userId, guestItem.productId,
                                  guestItem.selectedOptions) # 0
       IN /\ cart' = MigratedItem(cart, userId, guestItem)
          /\ pending' = [pending EXCEPT
                ![r].items = Tail(@),
                ![r].mergedCount = IF merged THEN @ + 1 ELSE @,
                ![r].migratedCount = IF merged THEN @ ELSE @ + 1]
    /\ UNCHANGED <<coupons, initialUsed, orders, inflight, products, last,
                   documents, categories, wishlist, customers, now>>

\* res.json({ message, migratedCount, mergedCount, totalProcessed })
MigrateRespond(r) ==
    /\ pending[r].op = "migrate"
    /\ pending[r].items = <<>>
    /\ last' = [op |-> "POST /api/migrate-cart", status |-> 200,
                userId |-> pending[r].userId,
                migratedCount |-> pending[r].migratedCount,
                mergedCount |-> pending[r].mergedCount]
    /\ pending' = [pending EXCEPT ![r] = NoPending]
    /\ UNCHANGED <<coupons, initialUsed, orders, inflight, cart, products,
                   documents, categories, wishlist, customers, now>>

-----------------------------------------------------------------------------
(* SpecInterleave: migrations and guest adds, interleaved *)

InterleaveUsers == {"u1", "u2"}

InterleaveAddBodies ==
    [productId : {1}, productName : {"gown"}, price : {100},
     image : {"gown.jpg"}, quantity : {1}, selectedOptions : {SizeM, <<>>},
     optionsPricing : {<<>>}, attachments : {NoAttachments}]

\* The id the next insert takes is not the id of a guest line a migration
\* has read, so that the id stands for the document.
IdsNotReused ==
    \A r \in Slots :
       pending[r].op = "migrate" =>
          \A k \in DOMAIN pending[r].items :
             pending[r].items[k].id < NextCartId(cart)

InitInterleave ==
    /\ InitShop({Coupon("fixed", 100, 0, 1, 0)})
    /\ products = InitProducts
    /\ documents = <<>>
    /\ pending = [r \in Slots |-> NoPending]
    /\ categories = <<>>
    /\ wishlist = <<>>
    /\ customers = <<>>
    /\ now = 0

NextInterleave ==
    \/ \E body \in InterleaveAddBodies :
          /\ IdsNotReused
          /\ PostCart(WithUserId(body, "guest"))
          /\ CartBounded(cart')
    \/ \E userId \in InterleaveUsers, body \in InterleaveAddBodies :
          /\ IdsNotReused
          /\ PostUserCart(userId, body)
          /\ CartBounded(cart')
    \/ \E r \in Slots, userId \in InterleaveUsers \cup {"guest"} :
          MigrateRead(r, userId)
    \/ \E r \in Slots :
          /\ IdsNotReused
          /\ MigrateItem(r)
          /\ CartBounded(cart')
    \/ \E r \in Slots : MigrateRespond(r)

SpecInterleave == InitInterleave /\ [][NextInterleave]_vars

\* The quantity all carts together hold of the product with those options.
RECURSIVE TotalQuantity(_, _, _)
TotalQuantity(lines, productId, selectedOptions) ==
    IF lines = <<>> THEN 0
    ELSE (IF /\ Head(lines).productId = productId
             /\ Head(lines).selectedOptions = selectedOptions
            THEN Head(lines).quantity ELSE 0)
         + TotalQuantity(Tail(lines), productId, selectedOptions)

\* C24: under any interleaving of migrations for different users and of
\* guest adds, a step of a migration moves a guest line to one cart: for
\* every (productId, selectedOptions) the quantity all carts hold together
\* is the same after the step as before it.
C24_MigrationKeepsTotals ==
    [][pending' # pending
          => \A k \in DOMAIN cart :
                TotalQuantity(cart', cart[k].productId, cart[k].selectedOptions)
                  = TotalQuantity(cart, cart[k].productId,
                                  cart[k].selectedOptions)]_vars

-----------------------------------------------------------------------------
(* Wishlist routes: look up the entry, then insert it *)

MaxWishlist == 3  \* documents in the Wishlist collection

WishlistOps == {"POST /api/wishlist", "POST /api/user/:userId/wishlist"}

\* Wishlist.findOne({ userId, productId })
WishlistHas(userId, productId) ==
    \E i \in DOMAIN wishlist :
       wishlist[i].userId = userId /\ wishlist[i].productId = productId

\* Both add-to-wishlist routes up to the insert: the user route answers 404
\* for an unknown product; both answer 400 when the entry exists.
WishlistFind(r, op, userId, productId) ==
    /\ pending[r].op = "none"
    /\ IF op = "POST /api/user/:userId/wishlist"
             /\ FindProduct(productId) = NoProduct
         THEN /\ pending' = pending
              /\ last' = [op |-> op, status |-> 404, userId |-> userId,
                          productId |-> productId]
       ELSE IF WishlistHas(userId, productId)
         THEN /\ pending' = pending
              /\ last' = [op |-> op, status |-> 400, userId |-> userId,
                          productId |-> productId]
       ELSE /\ pending' = [pending EXCEPT ![r] =
                  [op |-> op, userId |-> userId, productId |-> productId]]
            /\ last' = last
    /\ UNCHANGED <<coupons, initialUsed, orders, inflight, cart, products,
                   documents, categories, wishlist, customers, now>>

\* new Wishlist({...}); await wishlistItem.save(); 201.
WishlistSave(r) ==
    /\ pending[r].op \in WishlistOps
    /\ wishlist' = Append(wishlist, [userId |-> pending[r].userId,
                                     productId |-> pending[r].productId])
    /\ last' = [op |-> pending[r].op, status |-> 201,
                userId |-> pending[r].userId,
                productId |-> pending[r].productId]
    /\ pending' = [pending EXCEPT ![r] = NoPending]
    /\ UNCHANGED <<coupons, initialUsed, orders, inflight, cart, products,
                   documents, categories, customers, now>>

-----------------------------------------------------------------------------
(* SpecWishlist: concurrent adds to the wishlist *)

WishlistUsers == {"guest", "u1"}

WishlistProductIds == {1, 2}

InitWishlist ==
    /\ InitShop({Coupon("fixed", 100, 0, 1, 0)})
    /\ products = InitProducts
    /\ documents = <<>>
    /\ pending = [r \in Slots |-> NoPending]
    /\ categories = <<>>
    /\ wishlist = <<>>
    /\ customers = <<>>
    /\ now = 0

NextWishlist ==
    \/ \E r \in Slots, op \in WishlistOps, userId \in WishlistUsers,
          productId \in WishlistProductIds :
          /\ Len(wishlist) + PendingBusy < MaxWishlist
          /\ WishlistFind(r, op, userId, productId)
    \/ \E r \in Slots : WishlistSave(r)

SpecWishlist == InitWishlist /\ [][NextWishlist]_vars

\* C25: the wishlist holds at most one entry per (userId, productId), also
\* when two identical adds run concurrently.
C25_OneEntryPerProduct ==
    \A i, j \in DOMAIN wishlist :
       (wishlist[i].userId = wishlist[j].userId
          /\ wishlist[i].productId = wishlist[j].productId) => i = j

-----------------------------------------------------------------------------
(* Product deletion *)

\* DELETE /api/products/:id: findOneAndUpdate({ id }, { isActive: false }),
\* 404 when no product has the id.
DeleteProduct(id) ==
    /\ IF id \notin DOMAIN products
         THEN /\ products' = products
              /\ last' = [op |-> "DELETE /api/products/:id", status |-> 404]
         ELSE /\ products' = [products EXCEPT ![id].isActive = FALSE]
              /\ last' = [op |-> "DELETE /api/products/:id", status |-> 200]
    /\ UNCHANGED <<others, coupons, initialUsed, orders, inflight, cart>>

\* GET /api/products/:id: Product.findOne({ id, isActive: true }), 404 for
\* none.
GetProduct(id) ==
    /\ last' = [op |-> "GET /api/products/:id",
                status |-> IF id \in DOMAIN products /\ products[id].isActive
                             THEN 200 ELSE 404,
                productId |-> id]
    /\ UNCHANGED <<others, coupons, initialUsed, orders, inflight, cart, products>>

-----------------------------------------------------------------------------
(* SpecDelete: adds to the cart around the deletion of the product *)

DeleteAddBodies ==
    [productId : {1, 2}, productName : {"gown"}, price : {100},
     image : {"gown.jpg"}, quantity : {1}, selectedOptions : {SizeM, <<>>},
     optionsPricing : {<<>>}, attachments : {NoAttachments, TextNote}]

NextDelete ==
    \/ \E userId \in CartUsers, body \in DeleteAddBodies :
          PostCart(WithUserId(body, userId)) /\ CartBounded(cart')
    \/ \E userId \in CartUsers, body \in DeleteAddBodies :
          PostUserCart(userId, body) /\ CartBounded(cart')
    \/ \E id \in {1, 2} : DeleteProduct(id)
    \/ \E id \in {1, 2} : GetProduct(id)

SpecDelete == InitCart /\ [][NextDelete]_vars

\* C26: once a product is deleted (isActive false, GET /api/products/:id
\* answers 404), an add-to-cart that names it answers 404 and leaves the
\* cart unchanged.
C26_DeletedProductNotAddable ==
    [][(/\ AddStep
        /\ FindProduct(last'.body.productId) # NoProduct
        /\ ~FindProduct(last'.body.productId).isActive)
          => (last'.status = 404 /\ cart' = cart)]_vars

-----------------------------------------------------------------------------
(* Customer one-time code (models/Customer.js) *)

MaxClock == 12  \* minutes the clock runs

\* expiresAt.setMinutes(expiresAt.getMinutes() + 10)
OtpMinutes == 10

\* Math.floor(1000 + Math.random() * 9000).toString()
OtpCodes == {"1234", "5678"}

\* otp without code and expiry: never generated, or cleared.
NoOtp == [code |-> "", expiresAt |-> 0]

NoCodeSent == "no code sent"
CodeExpired == "code expired"
CodeWrong == "code wrong"
CodeVerified == "verified"

\* verifyOTP(inputOTP): the result, from the checks in their order.
verifyOTP(customer, inputOTP) ==
    IF customer.otp.code = ""
      THEN [valid |-> FALSE, message |-> NoCodeSent]
    ELSE IF now > customer.otp.expiresAt
      THEN [valid |-> FALSE, message |-> CodeExpired]
    ELSE IF customer.otp.code # inputOTP
      THEN [valid |-> FALSE, message |-> CodeWrong]
    ELSE [valid |-> TRUE, message |-> CodeVerified]

\* Faulty variant: a code that verified stays stored.
VerifiedOtpKept(otp) == otp

\* this.otp = undefined
VerifiedOtp(otp) == NoOtp

\* customer.generateOTP(): a fresh code that expires in ten minutes.  The
\* document counts the valid verifications since (history).
GenerateOTP(id, code) ==
    /\ customers' = [customers EXCEPT
          ![id].otp = [code |-> code, expiresAt |-> now + OtpMinutes],
          ![id].verified = 0]
    /\ last' = [op |-> "generateOTP", status |-> 0, customerId |-> id,
                otp |-> code]
    /\ UNCHANGED <<coupons, initialUsed, orders, inflight, cart, products,
                   documents, pending, categories, wishlist, now>>

\* customer.verifyOTP(inputOTP): the code is cleared when it verifies.
VerifyOTP(id, inputOTP) ==
    LET result == verifyOTP(customers[id], inputOTP)
    IN /\ customers' = IF result.valid
                         THEN [customers EXCEPT
                                 ![id].otp = VerifiedOtp(@),
                                 ![id].verified = @ + 1]
                         ELSE customers
       /\ last' = [op |-> "verifyOTP", status |-> 0, customerId |-> id,
                   inputOTP |-> inputOTP, valid |-> result.valid,
                   message |-> result.message]
       /\ UNCHANGED <<coupons, initialUsed, orders, inflight, cart, products,
                      documents, pending, categories, wishlist, now>>

\* A minute passes.
Tick ==
    /\ now < MaxClock
    /\ now' = now + 1
    /\ UNCHANGED <<coupons, initialUsed, orders, inflight, cart, products,
                   last, documents, pending, categories, wishlist, customers>>

-----------------------------------------------------------------------------
(* SpecOtp: one customer, codes generated and verified as time passes *)

OtpCustomers == {1}

OtpInputs == OtpCodes \cup {"", "0000"}

InitOtp ==
    /\ InitShop({Coupon("fixed", 100, 0, 1, 0)})
    /\ products = InitProducts
    /\ documents = <<>>
    /\ pending = <<>>
    /\ categories = <<>>
    /\ wishlist = <<>>
    /\ customers = [id \in OtpCustomers |-> [id |-> id, otp |-> NoOtp,
                                             verified |-> 0]]
    /\ now = 0

NextOtp ==
    \/ \E id \in OtpCustomers, code \in OtpCodes : GenerateOTP(id, code)
    \/ \E id \in OtpCustomers, inputOTP \in OtpInputs : VerifyOTP(id, inputOTP)
    \/ Tick

SpecOtp == InitOtp /\ [][NextOtp]_vars

VerifyStep == last'.op = "verifyOTP" /\ now' = now

\* C27: a code verifies at most once.  A valid verifyOTP clears the stored
\* code; with no code stored every verifyOTP is invalid, and only
\* generateOTP stores a code; a verifyOTP that fails (no code, then
\* expired, then wrong) leaves the stored code and expiry unchanged.
C27_OtpVerifiesOnce ==
    /\ [](\A id \in OtpCustomers : customers[id].verified <= 1)
    /\ [][VerifyStep =>
            LET id == last'.customerId
                otp == customers[id].otp
            IN /\ last'.valid => customers'[id].otp = NoOtp
               /\ otp.code = "" =>
                     ~last'.valid /\ last'.message = NoCodeSent
               /\ (otp.code # "" /\ now > otp.expiresAt) =>
                     ~last'.valid /\ last'.message = CodeExpired
               /\ (otp.code # "" /\ now <= otp.expiresAt
                      /\ otp.code # last'.inputOTP) =>
                     ~last'.valid /\ last'.message = CodeWrong
               /\ ~last'.valid => customers' = customers]_vars
    /\ [][\A id \in OtpCustomers :
            (customers[id].otp.code = "" /\ customers'[id].otp.code # "")
               => last'.op = "generateOTP"]_vars

\* The code verified once, and the same code, entered again, was refused
\* because no code is stored any more.
C27_Witness ==
    /\ last.op = "verifyOTP"
    /\ ~last.valid
    /\ last.message = NoCodeSent
    /\ last.inputOTP \in OtpCodes
    /\ customers[1].verified = 1
    /\ customers[1].otp = NoOtp

-----------------------------------------------------------------------------
(* Product stock (Product model) *)

MaxStock == 8  \* largest stock of a product

\* Faulty variant: the stock is reduced without the check.
reduceStockUnchecked(stock, quantity) ==
    [threw |-> FALSE, stock |-> stock - quantity]

\* reduceStock(quantity): throws 'Insufficient stock' when the stock is
\* smaller than the quantity, else this.stock -= quantity.
reduceStock(stock, quantity) ==
    IF stock < quantity
      THEN [threw |-> TRUE, stock |-> stock]
      ELSE [threw |-> FALSE, stock |-> stock - quantity]

\* increaseStock(quantity): this.stock += quantity.
increaseStock(stock, quantity) == stock + quantity

\* product.reduceStock(quantity), with the save() of the document.
ReduceStock(id, quantity) ==
    LET result == reduceStock(products[id].stock, quantity)
    IN /\ products' = [products EXCEPT ![id].stock = result.stock]
       /\ last' = [op |-> "reduceStock", status |-> 0, productId |-> id,
                   quantity |-> quantity, threw |-> result.threw]
       /\ UNCHANGED <<others, coupons, initialUsed, orders, inflight, cart>>

\* product.increaseStock(quantity), with the save() of the document.
IncreaseStock(id, quantity) ==
    /\ products' = [products EXCEPT
          ![id].stock = increaseStock(@, quantity)]
    /\ last' = [op |-> "increaseStock", status |-> 0, productId |-> id,
                quantity |-> quantity, threw |-> FALSE]
    /\ UNCHANGED <<others, coupons, initialUsed, orders, inflight, cart>>

-----------------------------------------------------------------------------
(* SpecStock: stock movements of one product *)

StockQuantities == 0..(MaxQuantity + 1)

StockProducts == {1, 2}

InitStock ==
    /\ InitShop({Coupon("fixed", 100, 0, 1, 0)})
    /\ \E stock \in 0..MaxQuantity :
          products = [id \in StockProducts |->
                        [id |-> id, name |-> "gown", price |-> 100,
                         mainImage |-> "gown.jpg", isActive |-> TRUE,
                         categoryId |-> 1, stock |-> stock]]
    /\ InitOthers

NextStock ==
    \/ \E id \in StockProducts, quantity \in StockQuantities :
          ReduceStock(id, quantity)
    \/ \E id \in StockProducts, quantity \in StockQuantities :
          /\ products[id].stock + quantity <= MaxStock
          /\ IncreaseStock(id, quantity)

SpecStock == InitStock /\ [][NextStock]_vars

\* C28: from a stock >= 0 and with quantities >= 0 the stock is never
\* negative; reduceStock(q) throws and leaves the stock unchanged when the
\* stock is smaller than q, and otherwise takes exactly q off it.
C28_StockNeverNegative ==
    /\ [](\A id \in DOMAIN products : products[id].stock >= 0)
    /\ [][last'.op = "reduceStock" =>
            LET id == last'.productId
                q == last'.quantity
            IN IF products[id].stock < q
                 THEN last'.threw /\ products' = products
                 ELSE ~last'.threw
                        /\ products'[id].stock = products[id].stock - q]_vars

\* A reduceStock for more than the stock threw, with stock left.
C28_Witness ==
    /\ last.op = "reduceStock"
    /\ last.threw
    /\ last.quantity > products[last.productId].stock
    /\ products[last.productId].stock > 0

-----------------------------------------------------------------------------
(* Category deletion: count the active products, then deactivate *)

\* Product.countDocuments({ categoryId, isActive: true })
ActiveProducts(categoryId) ==
    {id \in DOMAIN products :
        products[id].categoryId = categoryId /\ products[id].isActive}

\* DELETE /api/categories/:id up to the update: 400 when the category has
\* active products.
DeleteCategoryCount(r, categoryId) ==
    /\ pending[r].op = "none"
    /\ IF Cardinality(ActiveProducts(categoryId)) > 0
         THEN /\ pending' = pending
              /\ last' = [op |-> "DELETE /api/categories/:id", status |-> 400,
                          categoryId |-> categoryId]
         ELSE /\ pending' = [pending EXCEPT ![r] =
                    [op |-> "DELETE /api/categories/:id",
                     categoryId |-> categoryId]]
              /\ last' = last
    /\ UNCHANGED <<coupons, initialUsed, orders, inflight, cart, products,
                   documents, categories, wishlist, customers, now>>

\* DELETE /api/categories/:id: findOneAndUpdate({ id }, { isActive: false }),
\* 404 when no category has the id.
DeleteCategoryUpdate(r) ==
    /\ pending[r].op = "DELETE /api/categories/:id"
    /\ LET categoryId == pending[r].categoryId
       IN IF categoryId \notin DOMAIN categories
            THEN /\ categories' = categories
                 /\ last' = [op |-> "DELETE /api/categories/:id",
                             status |-> 404, categoryId |-> categoryId]
            ELSE /\ categories' = [categories EXCEPT
                                     ![categoryId].isActive = FALSE]
                 /\ last' = [op |-> "DELETE /api/categories/:id",
                             status |-> 200, categoryId |-> categoryId]
    /\ pending' = [pending EXCEPT ![r] = NoPending]
    /\ UNCHANGED <<coupons, initialUsed, orders, inflight, cart, products,
                   documents, wishlist, customers, now>>

-----------------------------------------------------------------------------
(* SpecCategory: category deletion beside product edits *)

CategoryIds == {1, 2, 3}

CategoryPutBodies ==
    [name : {"gown"}, price : {100}, mainImage : {""}, categoryId : {1, 2}]

InitCategory ==
    /\ InitShop({Coupon("fixed", 100, 0, 1, 0)})
    /\ products = [id \in {1, 2} |->
                     [id |-> id, name |-> "gown", price |-> 100,
                      mainImage |-> "gown.jpg", isActive |-> TRUE,
                      categoryId |-> 1]]
    /\ documents = <<>>
    /\ pending = [r \in Slots |-> NoPending]
    /\ categories = [id \in {1, 2} |-> [id |-> id, isActive |-> TRUE]]
    /\ wishlist = <<>>
    /\ customers = <<>>
    /\ now = 0

NextCategory ==
    \/ \E r \in Slots, categoryId \in CategoryIds :
          DeleteCategoryCount(r, categoryId)
    \/ \E r \in Slots : DeleteCategoryUpdate(r)
    \/ \E id \in {1, 2, 3}, body \in CategoryPutBodies : PutProduct(id, body)
    \/ \E id \in {1, 2} : DeleteProduct(id)

SpecCategory == InitCategory /\ [][NextCategory]_vars

\* C29: a category is never deactivated while it has an active product,
\* also when a product is moved into it while its deletion is under way.
C29_CategoryWithProductsKept ==
    [][\A id \in DOMAIN categories :
          (categories[id].isActive /\ ~categories'[id].isActive)
             => ActiveProducts(id) = {}]_vars

-----------------------------------------------------------------------------
(* PUT /api/cart/:id *)

\* PUT /api/cart/:id: findOneAndUpdate({ id }, { quantity:
\* parseInt(quantity) }) on the line with the id, whoever owns it; 404 when
\* there is none.  The quantity is stored as sent.
PutCartItem(itemId, body) ==
    LET hits == {i \in DOMAIN cart : cart[i].id = itemId}
        i == IF hits = {} THEN 0 ELSE CHOOSE k \in hits : \A j \in hits : k <= j
    IN /\ IF i = 0
            THEN /\ cart' = cart
                 /\ last' = [op |-> "PUT /api/cart/:id", status |-> 404]
            ELSE /\ cart' = [cart EXCEPT ![i].quantity = body.quantity]
                 /\ last' = [op |-> "PUT /api/cart/:id", status |-> 200]
       /\ UNCHANGED <<others, coupons, initialUsed, orders, inflight, products>>

-----------------------------------------------------------------------------
(* SpecQuantity: adds, quantity updates and migration *)

QuantityAddBodies ==
    [productId : {1}, productName : {"gown"}, price : {100},
     image : {"gown.jpg"}, quantity : {1}, selectedOptions : {SizeM, <<>>},
     optionsPricing : {<<>>}, attachments : {NoAttachments}]

QuantityPutBodies ==
    {PutBody({"quantity"}, -1, <<>>),
     PutBody({"quantity"}, 0, <<>>),
     PutBody({"quantity"}, 2, <<>>)}

\* The lines stay within the bounds of the model, below zero too.
QuantityBounded(lines) ==
    /\ CartBounded(lines)
    /\ \A i \in DOMAIN lines : lines[i].quantity >= 0 - MaxQuantity

NextQuantity ==
    \/ \E userId \in CartUsers, body \in QuantityAddBodies :
          PostCart(WithUserId(body, userId)) /\ QuantityBounded(cart')
    \/ \E userId \in CartUsers \ {"guest"}, body \in QuantityAddBodies :
          PostUserCart(userId, body) /\ QuantityBounded(cart')
    \/ \E itemId \in CartItemIds, body \in QuantityPutBodies :
          PutCartItem(itemId, body)
    \/ \E userId \in CartUsers, itemId \in CartItemIds,
          body \in QuantityPutBodies :
          PutUserCartItem(userId, itemId, body)
    \/ \E userId \in CartUsers : MigrateCart(userId) /\ QuantityBounded(cart')

SpecQuantity == InitCart /\ [][NextQuantity]_vars

\* C30: every cart line has a quantity of at least 1 in every reachable
\* state.
C30_QuantityAtLeastOne ==
    \A i \in DOMAIN cart : cart[i].quantity >= 1

====
